---- MODULE Spec2Model ----
(***************************************************************************)
(* Conway's Game of Life sketch (src/game-of-life/index.js) and the two    *)
(* earlier revisions of the same file kept in src/unnamed/part_000.        *)
(*                                                                         *)
(* JavaScript arrays are modelled as sequences: the JavaScript index i is  *)
(* the sequence index i + 1.  JavaScript numbers are integers plus the     *)
(* three values Infinity, -Infinity and NaN; a read past the end of an     *)
(* array yields Undefined.                                                 *)
(***************************************************************************)
EXTENDS Integers, Sequences, FiniteSets, TLC

VARIABLES grid, cols, rows, resolution, op, err, before, inputAfter, shared,
          counts, oob, entered, rendered, pointed, editedFrame, call, ret

vars == <<grid, cols, rows, resolution, op, err, before, inputAfter, shared,
          counts, oob, entered, rendered, pointed, editedFrame, call, ret>>

sketchVars == <<grid, cols, rows, resolution, op, err, before, inputAfter,
                shared, counts, oob, entered, rendered, pointed, editedFrame>>

(***************************************************************************)
(* JavaScript values                                                       *)
(***************************************************************************)
Infinity == 1000000
NaN == 2000000
Undefined == 3000000
NegInfinity == 0 - Infinity

IsFinite(n) == n \in Int /\ n # NaN /\ n # Undefined /\ n # Infinity /\ n # NegInfinity

\* a < b, a >= b on JavaScript numbers: every comparison with NaN is false
Lt(a, b) == a # NaN /\ b # NaN /\ a < b
Ge(a, b) == a # NaN /\ b # NaN /\ a >= b

\* a + b, a - b where an operand may be undefined or NaN
Plus(a, b) == IF a = NaN \/ b = NaN \/ a = Undefined \/ b = Undefined THEN NaN ELSE a + b
Minus(a, b) == IF a = NaN \/ b = NaN \/ a = Undefined \/ b = Undefined THEN NaN ELSE a - b

\* Math.floor(a / b) for a finite a and a finite or NaN b
FloorDiv(a, b) ==
  IF a = NaN \/ b = NaN THEN NaN
  ELSE IF b = 0 THEN (IF a > 0 THEN Infinity ELSE IF a < 0 THEN NegInfinity ELSE NaN)
  ELSE IF b > 0 THEN a \div b
  ELSE (0 - a) \div (0 - b)

\* a % b for a >= 0: NaN when b is 0
Rem(a, b) == IF b = 0 THEN NaN ELSE a % b

\* arr[i]: undefined past the end (and for a NaN index)
Get(arr, i) == IF i \in 0..(Len(arr) - 1) THEN arr[i + 1] ELSE Undefined

\* arr[i] = v: an index past the end lengthens the array
SetAt(arr, i, v) ==
  IF i < Len(arr) THEN [arr EXCEPT ![i + 1] = v]
  ELSE arr \o [k \in 1..(i - Len(arr)) |-> Undefined] \o <<v>>

\* new Array(n) throws a RangeError unless n is an array length
ValidLength(n) == IsFinite(n) /\ n >= 0

(***************************************************************************)
(* create2DArray, index.js 7-13                                            *)
(***************************************************************************)
RECURSIVE create2DArrayLoop(_, _, _, _)
create2DArrayLoop(arr, i, ncols, initialValue) ==
  IF i >= Len(arr) THEN arr
  ELSE create2DArrayLoop([arr EXCEPT ![i + 1] = [k \in 1..ncols |-> initialValue]],
                         i + 1, ncols, initialValue)

\* a slip that swaps the two dimensions
create2DArrayTransposed(nrows, ncols, initialValue) ==
  IF ~ValidLength(ncols) THEN [err |-> "RangeError", val |-> <<>>]
  ELSE IF ncols > 0 /\ ~ValidLength(nrows) THEN [err |-> "RangeError", val |-> <<>>]
  ELSE [err |-> "none",
        val |-> create2DArrayLoop([k \in 1..ncols |-> Undefined], 0, nrows, initialValue)]

create2DArray(nrows, ncols, initialValue) ==
  IF ~ValidLength(nrows) THEN [err |-> "RangeError", val |-> <<>>]
  ELSE IF nrows > 0 /\ ~ValidLength(ncols) THEN [err |-> "RangeError", val |-> <<>>]
  ELSE [err |-> "none",
        val |-> create2DArrayLoop([k \in 1..nrows |-> Undefined], 0, ncols, initialValue)]

(***************************************************************************)
(* create2DArray of the first revision, part_000 7-13: the recursive call  *)
(* passes no initialValue, so the parameter's default 0 applies            *)
(***************************************************************************)
RECURSIVE create2DArrayRecursive(_, _, _)
create2DArrayRecursive(nrows, ncols, initialValue) ==
  IF ncols = 0 THEN <<>>
  ELSE <<[k \in 1..nrows |-> initialValue]>> \o create2DArrayRecursive(nrows, ncols - 1, 0)

(***************************************************************************)
(* randomFill2DArray, index.js 20-24.  Math.random() is a draw d standing  *)
(* for the real d / RandomScale in [0, 1); probability is in percent.      *)
(***************************************************************************)
RandomScale == 2

RandomDraws == 0..(RandomScale - 1)

\* the matrices of draws that array.map(row => row.map(...)) consumes
DrawsFor(array) ==
  IF Len(array) = 0 THEN {<<>>}
  ELSE [1..Len(array) -> [1..Len(array[1]) -> RandomDraws]]

\* a slip in line 22: < written as <=
randomFill2DArrayInclusive(array, probability, draws) ==
  [i \in 1..Len(array) |->
     [j \in 1..Len(array[i]) |->
        IF draws[i][j] * 100 <= probability * RandomScale THEN 1 ELSE 0]]

randomFill2DArray(array, probability, draws) ==
  [i \in 1..Len(array) |->
     [j \in 1..Len(array[i]) |->
        IF draws[i][j] * 100 < probability * RandomScale THEN 1 ELSE 0]]

(***************************************************************************)
(* countNeighbors, index.js 65-78 (the same text as part_000 159-172)      *)
(***************************************************************************)
RECURSIVE countNeighborsLoop(_, _, _, _, _)
countNeighborsLoop(g, x, y, k, sum) ==
  IF k >= 9 THEN sum
  ELSE LET i == (k \div 3) - 1
           j == (k % 3) - 1
           ncols == Len(g[1])
           nrows == Len(g)
           row == Rem(x + i + nrows, nrows)
           col == Rem(y + j + ncols, ncols)
       IN countNeighborsLoop(g, x, y, k + 1, Plus(sum, Get(Get(g, row), col)))

\* a slip that leaves out line 76, the subtraction of the cell itself
countNeighborsCountsSelf(g, x, y) == countNeighborsLoop(g, x, y, 0, 0)

\* a slip that wraps the first index by the inner length and the second by
\* the outer length
RECURSIVE countNeighborsSwappedLoop(_, _, _, _, _)
countNeighborsSwappedLoop(g, x, y, k, sum) ==
  IF k >= 9 THEN sum
  ELSE LET i == (k \div 3) - 1
           j == (k % 3) - 1
           ncols == Len(g[1])
           nrows == Len(g)
           row == Rem(x + i + ncols, ncols)
           col == Rem(y + j + nrows, nrows)
       IN countNeighborsSwappedLoop(g, x, y, k + 1, Plus(sum, Get(Get(g, row), col)))

countNeighborsSwappedWrap(g, x, y) ==
  Minus(countNeighborsSwappedLoop(g, x, y, 0, 0), Get(Get(g, x), y))

\* a variant that does not wrap: a neighbour off the edge counts as dead
countNeighborsNoWrap(g, x, y) ==
  LET inside == {d \in ((0 - 1)..1) \X ((0 - 1)..1) :
                   /\ d # <<0, 0>>
                   /\ x + d[1] \in 0..(Len(g) - 1)
                   /\ y + d[2] \in 0..(Len(g[1]) - 1)}
  IN Cardinality({d \in inside : g[x + d[1] + 1][y + d[2] + 1] = 1})

countNeighbors(g, x, y) ==
  Minus(countNeighborsLoop(g, x, y, 0, 0), Get(Get(g, x), y))

(***************************************************************************)
(* countNeighbors of the first revision, part_000 41-54: cols is the       *)
(* inner length and wraps the first index, rows is the outer length and    *)
(* wraps the second                                                        *)
(***************************************************************************)
RECURSIVE countNeighborsEarlyLoop(_, _, _, _, _)
countNeighborsEarlyLoop(g, x, y, k, sum) ==
  IF k >= 9 THEN sum
  ELSE LET i == (k \div 3) - 1
           j == (k % 3) - 1
           ncols == Len(g[1])
           nrows == Len(g)
           col == Rem(x + i + ncols, ncols)
           row == Rem(y + j + nrows, nrows)
       IN countNeighborsEarlyLoop(g, x, y, k + 1, Plus(sum, Get(Get(g, col), row)))

countNeighborsEarly(g, x, y) ==
  Minus(countNeighborsEarlyLoop(g, x, y, 0, 0), Get(Get(g, x), y))

(***************************************************************************)
(* nextGeneration, index.js 85-103.  Rows are objects: heap is the         *)
(* sequence of row arrays, cur and nxt hold the addresses of the rows of   *)
(* currentGeneration and of the local nextGeneration.                      *)
(***************************************************************************)
\* index.js 92-98: the branch taken for one cell
\* a slip in line 92: > 3 written as >= 3
ruleDiesAtThree(cell, neighbors) ==
  IF cell = 1 /\ (Lt(neighbors, 2) \/ Ge(neighbors, 3)) THEN 0
  ELSE IF cell = 0 /\ neighbors = 3 THEN 1
  ELSE cell

\* a slip in line 94: a dead cell is born with 2 neighbours
ruleBirthAtTwo(cell, neighbors) ==
  IF cell = 1 /\ (Lt(neighbors, 2) \/ Lt(3, neighbors)) THEN 0
  ELSE IF cell = 0 /\ neighbors = 2 THEN 1
  ELSE cell

\* a slip in line 94: === 3 written as < 3
ruleBirthBelowThree(cell, neighbors) ==
  IF cell = 1 /\ (Lt(neighbors, 2) \/ Lt(3, neighbors)) THEN 0
  ELSE IF cell = 0 /\ Lt(neighbors, 3) THEN 1
  ELSE cell

rule(cell, neighbors) ==
  IF cell = 1 /\ (Lt(neighbors, 2) \/ Lt(3, neighbors)) THEN 0
  ELSE IF cell = 0 /\ neighbors = 3 THEN 1
  ELSE cell

Deref(heap, addrs) == [i \in 1..Len(addrs) |-> heap[addrs[i]]]

AddrsOf(addrs) == {addrs[i] : i \in 1..Len(addrs)}

nextGenerationResult(e, heap, cur, nxt, cnts) ==
  [err |-> e, val |-> Deref(heap, nxt), input |-> Deref(heap, cur),
   shared |-> AddrsOf(cur) \cap AddrsOf(nxt), counts |-> cnts]

\* index.js 88-100: currentGeneration.forEach((row, i) => row.forEach((cell, j) => ...))
RECURSIVE nextGenerationLoop(_, _, _, _, _, _)
nextGenerationLoop(heap, cur, nxt, i, j, cnts) ==
  IF i >= Len(cur) THEN nextGenerationResult("none", heap, cur, nxt, cnts)
  ELSE IF j >= Len(heap[cur[i + 1]]) THEN nextGenerationLoop(heap, cur, nxt, i + 1, 0, cnts)
  ELSE LET cell == heap[cur[i + 1]][j + 1]
           neighbors == countNeighbors(Deref(heap, cur), i, j)
           v == rule(cell, neighbors)
       IN IF i >= Len(nxt)
          THEN nextGenerationResult("TypeError", heap, cur, nxt, cnts \cup {neighbors})
          ELSE nextGenerationLoop(
                 [heap EXCEPT ![nxt[i + 1]] = SetAt(heap[nxt[i + 1]], j, v)],
                 cur, nxt, i, j + 1, cnts \cup {neighbors})

\* a slip that updates the generation in place instead of allocating a new one
nextGenerationInPlace(currentGeneration, gcols, grows) ==
  LET cur == [i \in 1..Len(currentGeneration) |-> i]
  IN nextGenerationLoop(currentGeneration, cur, cur, 0, 0, {})

nextGeneration(currentGeneration, gcols, grows) ==
  LET made == create2DArray(gcols, grows, 0)
      n == Len(currentGeneration)
      cur == [i \in 1..n |-> i]
      nxt == [i \in 1..Len(made.val) |-> n + i]
  IN IF made.err # "none"
     THEN [err |-> made.err, val |-> <<>>, input |-> currentGeneration,
           shared |-> {}, counts |-> {}]
     ELSE nextGenerationLoop(currentGeneration \o made.val, cur, nxt, 0, 0, {})

(***************************************************************************)
(* drawGrid, index.js 46-56: the neighbour counts it looks colours up by   *)
(***************************************************************************)
\* the (i, j) that array.forEach((row, i) => row.forEach((cell, j) => ...)) visits
CellsOf(array) ==
  UNION {{<<i, j>> : j \in 0..(Len(array[i + 1]) - 1)} : i \in 0..(Len(array) - 1)}

drawGrid(array) ==
  {countNeighbors(array, p[1], p[2]) :
     p \in {q \in CellsOf(array) : array[q[1] + 1][q[2] + 1] = 1}}

(***************************************************************************)
(* fillSquare, index.js 108-117                                            *)
(***************************************************************************)
\* index.js 112-115: the four assignments, in order
fillSquareWrites(x, y) == <<(<<x, y>>), (<<x + 1, y>>), (<<x, y + 1>>), (<<x + 1, y + 1>>)>>

\* a slip that flips the four cells instead of setting them
RECURSIVE fillSquareLoopFlips(_, _, _, _, _, _)
fillSquareLoopFlips(g, gcols, grows, writes, k, outside) ==
  IF k > Len(writes)
  THEN [grid |-> g, err |-> "none", oob |-> outside, cell |-> writes[1]]
  ELSE LET a == writes[k][1]
           b == writes[k][2]
       IN IF a >= Len(g)
          THEN [grid |-> g, err |-> "TypeError", oob |-> outside, cell |-> writes[1]]
          ELSE fillSquareLoopFlips(
                 [g EXCEPT ![a + 1] = SetAt(g[a + 1], b, Minus(1, Get(g[a + 1], b)))],
                 gcols, grows, writes, k + 1,
                 IF a >= gcols \/ b >= grows THEN outside \cup {<<a, b>>} ELSE outside)

\* grid[a][b] = 1 throws a TypeError when grid[a] is undefined
RECURSIVE fillSquareLoop(_, _, _, _, _, _)
fillSquareLoop(g, gcols, grows, writes, k, outside) ==
  IF k > Len(writes)
  THEN [grid |-> g, err |-> "none", oob |-> outside, cell |-> writes[1]]
  ELSE LET a == writes[k][1]
           b == writes[k][2]
       IN IF a >= Len(g)
          THEN [grid |-> g, err |-> "TypeError", oob |-> outside, cell |-> writes[1]]
          ELSE fillSquareLoop([g EXCEPT ![a + 1] = SetAt(g[a + 1], b, 1)],
                              gcols, grows, writes, k + 1,
                              IF a >= gcols \/ b >= grows
                              THEN outside \cup {<<a, b>>} ELSE outside)

fillSquare(g, gcols, grows, res, mouseX, mouseY) ==
  LET x == FloorDiv(mouseX, res)
      y == FloorDiv(mouseY, res)
  IN IF Ge(x, 0) /\ Lt(x, gcols) /\ Ge(y, 0) /\ Lt(y, grows)
     THEN fillSquareLoop(g, gcols, grows, fillSquareWrites(x, y), 1, {})
     ELSE [grid |-> g, err |-> "none", oob |-> {}, cell |-> <<>>]

(***************************************************************************)
(* The host: window size, pointer positions, the resolution input          *)
(***************************************************************************)
windowWidth == 30
windowHeight == 20

\* index.js 122: let resolution = 10
InitialResolution == 10

\* pointer coordinates in pixels, from left of / above the canvas to past it
MouseStep == 10
MouseXs == {MouseStep * k : k \in (0 - 1)..(windowWidth \div MouseStep)}
MouseYs == {MouseStep * k : k \in (0 - 1)..(windowHeight \div MouseStep)}

\* the text of the resolution input: a number in halves (31 is "15.5"), or
\* text that is no number
ResolutionInputs == {NaN, 0 - 20, 0, 1, 20, 31, 40, 50, 62}

\* Math.floor(newResolution), index.js 129
floorInput(newResolution) == FloorDiv(newResolution, 2)

(***************************************************************************)
(* setup, index.js 133-139                                                 *)
(***************************************************************************)
setupDims(res) ==
  [cols |-> FloorDiv(windowWidth, res), rows |-> FloorDiv(windowHeight, res)]

\* index.js 137-138: the grids create2DArray followed by randomFill2DArray
\* can leave at each resolution, over all outcomes of the draws
SeedGrids ==
  [res \in {InitialResolution} \cup {floorInput(t) : t \in ResolutionInputs} |->
     LET made == create2DArray(setupDims(res).cols, setupDims(res).rows, 0)
     IN IF made.err # "none" THEN {}
        ELSE {randomFill2DArray(made.val, 50, draws) : draws \in DrawsFor(made.val)}]

Init ==
  /\ resolution = InitialResolution
  /\ cols = setupDims(InitialResolution).cols
  /\ rows = setupDims(InitialResolution).rows
  /\ grid \in SeedGrids[InitialResolution]
  /\ op = "setup"
  /\ err = "none"
  /\ before = <<>>
  /\ inputAfter = <<>>
  /\ shared = {}
  /\ counts = {}
  /\ oob = {}
  /\ entered = Undefined
  /\ rendered = <<>>
  /\ pointed = <<>>
  /\ editedFrame = FALSE
  /\ call = [fn |-> "none"]
  /\ ret = <<>>

\* setup() as called by changeResolution: cols and rows are assigned before
\* create2DArray can throw, grid only after it returned
setup(res) ==
  LET d == setupDims(res)
      made == create2DArray(d.cols, d.rows, 0)
  IN /\ cols' = d.cols
     /\ rows' = d.rows
     /\ IF made.err # "none"
        THEN /\ grid' = grid
             /\ err' = made.err
        ELSE /\ grid' \in SeedGrids[res]
             /\ err' = "none"

(***************************************************************************)
(* changeResolution, index.js 127-131                                      *)
(***************************************************************************)
changeResolution ==
  \E newResolution \in ResolutionInputs :
    /\ resolution' = floorInput(newResolution)
    /\ setup(floorInput(newResolution))
    /\ op' = "changeResolution"
    /\ before' = <<>>
    /\ inputAfter' = <<>>
    /\ shared' = {}
    /\ counts' = {}
    /\ oob' = {}
    /\ entered' = newResolution
    /\ rendered' = <<>>
    /\ pointed' = <<>>
    /\ editedFrame' = FALSE
    /\ UNCHANGED <<call, ret>>

(***************************************************************************)
(* mouseClicked, mouseDragged, index.js 141-147                            *)
(***************************************************************************)
pointer(name) ==
  \E mouseX \in MouseXs, mouseY \in MouseYs :
    LET r == fillSquare(grid, cols, rows, resolution, mouseX, mouseY)
    IN /\ grid' = r.grid
       /\ err' = r.err
       /\ oob' = r.oob
       /\ op' = name
       /\ before' = grid
       /\ inputAfter' = <<>>
       /\ shared' = {}
       /\ counts' = {}
       /\ pointed' = r.cell
       /\ rendered' = <<>>
       /\ editedFrame' = FALSE
       /\ UNCHANGED <<cols, rows, resolution, entered, call, ret>>

mouseClicked == pointer("mouseClicked")

mouseDragged == pointer("mouseDragged")

(***************************************************************************)
(* draw, index.js 149-159.  Lines 153-158 only paint the pointer's square. *)
(***************************************************************************)
drawFrame(g, gcols, grows) ==
  LET painted == drawGrid(g)
      r == nextGeneration(g, gcols, grows)
  IN [rendered |-> g, painted |-> painted, next |-> r]

draw ==
  LET frame == drawFrame(grid, cols, rows)
      r == frame.next
  IN /\ grid' = IF r.err = "none" THEN r.val ELSE grid
     /\ err' = r.err
     /\ counts' = frame.painted \cup r.counts
     /\ before' = grid
     /\ inputAfter' = r.input
     /\ shared' = r.shared
     /\ rendered' = frame.rendered
     /\ editedFrame' = (op \in {"mouseClicked", "mouseDragged"} /\ before # grid)
     /\ op' = "draw"
     /\ oob' = {}
     /\ pointed' = <<>>
     /\ UNCHANGED <<cols, rows, resolution, entered, call, ret>>

Next == mouseClicked \/ mouseDragged \/ draw \/ changeResolution

Spec == Init /\ [][Next]_vars

(***************************************************************************)
(* Properties of the running sketch                                        *)
(***************************************************************************)
IsPointerOp == op \in {"mouseClicked", "mouseDragged"}

\* a rows x cols matrix of 0 and 1, as create2DArray and randomFill2DArray build it
IsMatrix(g) ==
  /\ \A i \in 1..Len(g) : Len(g[i]) = Len(g[1])
  /\ \A i \in 1..Len(g) : \A j \in 1..Len(g[i]) : g[i][j] \in {0, 1}

\* C3: in every reachable state the grid is a rectangular matrix whose outer
\* length and every inner length are the dimensions held in cols and rows.
C3_ShapeMatchesDims ==
  /\ Len(grid) = cols
  /\ \A i \in 1..Len(grid) : Len(grid[i]) = rows

\* C4: a pointer click or drag at any position completes without an error
\* and writes to no coordinate outside the grid's bounds.
C4_PointerSafe == IsPointerOp => (err = "none" /\ oob = {})

\* C10: every neighbour count computed by drawGrid or nextGeneration in a
\* frame is an integer in 0..8.
C10_CountsInRange == \A n \in counts : n \in 0..8

\* C5: nextGeneration on a valid grid, 0-sized ones included, returns without
\* error a grid of the input's dimensions.
C5_DimensionsPreserved ==
  (op = "draw" /\ IsMatrix(before)) =>
     /\ err = "none"
     /\ Len(grid) = Len(before)
     /\ \A i \in 1..Len(grid) : Len(grid[i]) = Len(before[i])

(***************************************************************************)
(* The functions called on their own: the initial state holds the          *)
(* arguments of one call, the action applies the function(s) to them.      *)
(***************************************************************************)
MaxRows == 3
MaxCols == 2

\* the matrices of 0 and 1 with the given numbers of rows and columns
Grids(nrows, ncols) == [1..nrows -> [1..ncols -> {0, 1}]]

Pending == [done |-> FALSE]

\* the nrows x ncols matrix whose alive cells are those of the set alive
GridWith(nrows, ncols, alive) ==
  [i \in 1..nrows |-> [j \in 1..ncols |-> IF <<i - 1, j - 1>> \in alive THEN 1 ELSE 0]]

\* pattern grids have up to MaxPattern rows and columns
MaxPattern == 6

\* three cells in a line through (a, b), along the first or the second index,
\* on the torus of nrows x ncols cells
Triple(nrows, ncols, a, b, axis) ==
  IF axis = "first"
  THEN {<<(a + d + nrows) % nrows, b>> : d \in (0 - 1)..1}
  ELSE {<<a, (b + d + ncols) % ncols>> : d \in (0 - 1)..1}

\* the 2 x 2 block whose corner of least indices is (a, b), on the torus
Block(nrows, ncols, a, b) ==
  {<<(a + d[1]) % nrows, (b + d[2]) % ncols>> : d \in (0..1) \X (0..1)}

AllAlive3x3 == create2DArray(3, 3, 1).val

\* grids handed to randomFill2DArray have up to MaxFillRows x MaxFillCols cells
MaxFillRows == 2

MaxFillCols == 2

\* square grids handed to both revisions of countNeighbors have up to
\* MaxSquare rows
MaxSquare == 2

\* probabilities in percent: 0, the default 0.5, and 1
Probabilities == {0, 50, 100}

InitFn ==
  /\ \/ \E r \in 0..MaxRows, c \in 0..MaxCols, v \in {0, 1} :
          call = [fn |-> "create2DArray", rows |-> r, cols |-> c, initialValue |-> v]
     \/ \E r \in 0..MaxRows, c \in 0..MaxCols, v \in {0, 1} :
          call = [fn |-> "create2DArray revisions", rows |-> r, cols |-> c,
                  initialValue |-> v]
     \/ \E r \in 1..MaxRows, c \in 1..MaxCols :
          \E g \in Grids(r, c), x \in 0..(r - 1), y \in 0..(c - 1) :
            call = [fn |-> "countNeighbors", grid |-> g, x |-> x, y |-> y]
     \/ \E r \in 0..MaxRows, c \in 0..MaxCols :
          \E g \in Grids(r, c) :
            call = [fn |-> "nextGeneration", grid |-> g, cols |-> r, rows |-> c]
     \/ \E r \in 0..MaxRows, c \in 0..MaxCols :
          \E g \in Grids(r, c) :
            call = [fn |-> "nextGeneration twice", grid |-> g, cols |-> r, rows |-> c]
     \/ \E r \in 5..MaxPattern, c \in 5..MaxPattern, axis \in {"first", "second"} :
          \E a \in 0..(r - 1), b \in 0..(c - 1) :
            call = [fn |-> "nextGeneration repeated",
                    grid |-> GridWith(r, c, Triple(r, c, a, b, axis)),
                    cols |-> r, rows |-> c, centre |-> <<a, b>>, axis |-> axis]
     \/ \E r \in 4..MaxPattern, c \in 4..MaxPattern :
          \E a \in 0..(r - 1), b \in 0..(c - 1) :
            call = [fn |-> "nextGeneration", grid |-> GridWith(r, c, Block(r, c, a, b)),
                    cols |-> r, rows |-> c, block |-> Block(r, c, a, b)]
     \/ \E x \in 0..2, y \in 0..2 :
          call = [fn |-> "countNeighbors", grid |-> AllAlive3x3, x |-> x, y |-> y]
     \/ \E n \in 1..MaxSquare :
          \E g \in Grids(n, n), x \in 0..(n - 1), y \in 0..(n - 1) :
            call = [fn |-> "countNeighbors revisions", grid |-> g, x |-> x, y |-> y]
     \/ \E r \in 0..MaxFillRows, c \in 0..MaxFillCols, v \in {0, 1}, p \in Probabilities :
          \E draws \in DrawsFor(create2DArray(r, c, v).val) :
            call = [fn |-> "randomFill2DArray", array |-> create2DArray(r, c, v).val,
                    probability |-> p, draws |-> draws]
  /\ ret = Pending
  /\ grid = <<>>
  /\ cols = 0
  /\ rows = 0
  /\ resolution = InitialResolution
  /\ op = "none"
  /\ err = "none"
  /\ before = <<>>
  /\ inputAfter = <<>>
  /\ shared = {}
  /\ counts = {}
  /\ oob = {}
  /\ entered = Undefined
  /\ rendered = <<>>
  /\ pointed = <<>>
  /\ editedFrame = FALSE

callCreate2DArray ==
  /\ call.fn = "create2DArray"
  /\ ret = Pending
  /\ ret' = [done |-> TRUE,
             out |-> create2DArray(call.rows, call.cols, call.initialValue)]
  /\ UNCHANGED <<call, sketchVars>>

callCreate2DArrayRevisions ==
  /\ call.fn = "create2DArray revisions"
  /\ ret = Pending
  /\ ret' = [done |-> TRUE,
             out |-> create2DArray(call.rows, call.cols, call.initialValue),
             recursive |-> create2DArrayRecursive(call.rows, call.cols, call.initialValue)]
  /\ UNCHANGED <<call, sketchVars>>

callCountNeighbors ==
  /\ call.fn = "countNeighbors"
  /\ ret = Pending
  /\ ret' = [done |-> TRUE, out |-> countNeighbors(call.grid, call.x, call.y)]
  /\ UNCHANGED <<call, sketchVars>>

\* the globals cols and rows are those setup left for a grid of this shape
callNextGeneration ==
  /\ call.fn = "nextGeneration"
  /\ ret = Pending
  /\ ret' = [done |-> TRUE, out |-> nextGeneration(call.grid, call.cols, call.rows)]
  /\ UNCHANGED <<call, sketchVars>>

\* two calls in a row on the same array object
callNextGenerationTwice ==
  /\ call.fn = "nextGeneration twice"
  /\ ret = Pending
  /\ LET first == nextGeneration(call.grid, call.cols, call.rows)
         second == nextGeneration(first.input, call.cols, call.rows)
     IN ret' = [done |-> TRUE, first |-> first, second |-> second]
  /\ UNCHANGED <<call, sketchVars>>

\* a generation, then the generation after it
callNextGenerationRepeated ==
  /\ call.fn = "nextGeneration repeated"
  /\ ret = Pending
  /\ LET first == nextGeneration(call.grid, call.cols, call.rows)
         second == nextGeneration(first.val, call.cols, call.rows)
     IN ret' = [done |-> TRUE, first |-> first, second |-> second]
  /\ UNCHANGED <<call, sketchVars>>

callRandomFill2DArray ==
  /\ call.fn = "randomFill2DArray"
  /\ ret = Pending
  /\ ret' = [done |-> TRUE,
             out |-> randomFill2DArray(call.array, call.probability, call.draws)]
  /\ UNCHANGED <<call, sketchVars>>

callCountNeighborsRevisions ==
  /\ call.fn = "countNeighbors revisions"
  /\ ret = Pending
  /\ ret' = [done |-> TRUE,
             early |-> countNeighborsEarly(call.grid, call.x, call.y),
             later |-> countNeighbors(call.grid, call.x, call.y)]
  /\ UNCHANGED <<call, sketchVars>>

NextFn ==
  \/ callCountNeighborsRevisions
  \/ callRandomFill2DArray
  \/ callNextGenerationRepeated
  \/ callCreate2DArray
  \/ callCreate2DArrayRevisions
  \/ callCountNeighbors
  \/ callNextGeneration
  \/ callNextGenerationTwice

SpecFn == InitFn /\ [][NextFn]_vars

Returned(fn) == call.fn = fn /\ ret.done

(***************************************************************************)
(* Properties of the functions                                             *)
(***************************************************************************)
\* C1: each cell of nextGeneration(grid) follows from the cell and its
\* neighbour count in the input generation: alive with fewer than 2 or more
\* than 3 neighbours dies, alive with 2 or 3 survives, dead with exactly 3
\* becomes alive, dead otherwise stays dead.
C1_RuleOnCurrentGeneration ==
  Returned("nextGeneration") =>
    /\ ret.out.err = "none"
    /\ \A p \in CellsOf(call.grid) :
         LET cell == call.grid[p[1] + 1][p[2] + 1]
             n == countNeighbors(call.grid, p[1], p[2])
             next == ret.out.val[p[1] + 1][p[2] + 1]
         IN /\ (cell = 1 /\ n < 2) => next = 0
            /\ (cell = 1 /\ n > 3) => next = 0
            /\ (cell = 1 /\ n \in {2, 3}) => next = 1
            /\ (cell = 0 /\ n = 3) => next = 1
            /\ (cell = 0 /\ n # 3) => next = 0

\* a call on a non-square grid in which a dead cell with 3 neighbours is born
\* and an alive cell with 2 neighbours survives
C1_Witness ==
  /\ Returned("nextGeneration")
  /\ Len(call.grid) = 3
  /\ Len(call.grid[1]) = 2
  /\ \E p \in CellsOf(call.grid) :
       /\ call.grid[p[1] + 1][p[2] + 1] = 0
       /\ countNeighbors(call.grid, p[1], p[2]) = 3
       /\ ret.out.val[p[1] + 1][p[2] + 1] = 1
  /\ \E p \in CellsOf(call.grid) :
       /\ call.grid[p[1] + 1][p[2] + 1] = 1
       /\ countNeighbors(call.grid, p[1], p[2]) = 2
       /\ ret.out.val[p[1] + 1][p[2] + 1] = 1

Offsets == {d \in ((0 - 1)..1) \X ((0 - 1)..1) : d # <<0, 0>>}

\* the sum over the offsets in S of the wrapped cells around (row, col)
RECURSIVE SumOffsets(_, _, _, _)
SumOffsets(S, g, row, col) ==
  IF S = {} THEN 0
  ELSE LET d == CHOOSE e \in S : TRUE
           nrows == Len(g)
           ncols == Len(g[1])
       IN g[((row + d[1] + nrows) % nrows) + 1][((col + d[2] + ncols) % ncols) + 1]
          + SumOffsets(S \ {d}, g, row, col)

\* C2: countNeighbors(grid, row, col) is the sum over the 8 offsets other
\* than (0,0) of grid[(row+di+rows) mod rows][(col+dj+cols) mod cols], rows the
\* outer length and cols the inner length.
C2_CountIsToroidalSum ==
  Returned("countNeighbors") => ret.out = SumOffsets(Offsets, call.grid, call.x, call.y)

\* a call on a non-square grid at a cell of the last row and last column
C2_Witness ==
  /\ Returned("countNeighbors")
  /\ Len(call.grid) = 3
  /\ Len(call.grid[1]) = 2
  /\ call.x = 2
  /\ call.y = 1
  /\ ret.out = 5

\* C6: nextGeneration leaves every cell of its input as it was, returns a
\* grid that shares no row with the input, and a second call on the same
\* input returns an equal grid.
C6_InputNotMutated ==
  Returned("nextGeneration twice") =>
    /\ ret.first.err = "none"
    /\ ret.first.input = call.grid
    /\ ret.first.shared = {}
    /\ ret.second.err = "none"
    /\ ret.second.val = ret.first.val

\* two calls whose output differs from the input
C6_Witness ==
  /\ Returned("nextGeneration twice")
  /\ Len(call.grid) = 3
  /\ ret.first.val # call.grid
  /\ ret.second.val = ret.first.val

\* C7: create2DArray(rows, cols, v) returns rows rows of cols cells, all v;
\* with rows = 0 or cols = 0 the result is empty and no error is raised.
C7_Create2DArrayShape ==
  Returned("create2DArray") =>
    /\ ret.out.err = "none"
    /\ Len(ret.out.val) = call.rows
    /\ \A i \in 1..Len(ret.out.val) :
         /\ Len(ret.out.val[i]) = call.cols
         /\ \A j \in 1..Len(ret.out.val[i]) : ret.out.val[i][j] = call.initialValue

\* a 3 x 2 all-alive matrix was built
C7_Witness ==
  /\ Returned("create2DArray")
  /\ call.rows = 3
  /\ call.cols = 2
  /\ call.initialValue = 1
  /\ ret.out.val = <<(<<1, 1>>), (<<1, 1>>), (<<1, 1>>)>>

\* C8: the recursive create2DArray returns the same matrix as the iterative
\* one for all non-negative rows, cols and initialValue in {0, 1}.
C8_RevisionsEquivalent ==
  Returned("create2DArray revisions") => ret.recursive = ret.out.val

IsOneByOne(g) == Len(g) = 1 /\ Len(g[1]) = 1

\* C9 as stated: on a 1x1 grid countNeighbors(grid, 0, 0) is 0, alive or dead.
C9_OneByOneIsZero ==
  (Returned("countNeighbors") /\ IsOneByOne(call.grid)) => ret.out = 0

\* C9 amended: on a 1x1 grid countNeighbors(grid, 0, 0) is 8 times the cell:
\* 0 for a dead cell, 8 for an alive one (the 9 wrapped reads all hit the
\* cell and line 76 subtracts it once).
C9_OneByOneIsEightTimesCell ==
  (Returned("countNeighbors") /\ IsOneByOne(call.grid)) => ret.out = 8 * call.grid[1][1]

\* the call on the 1x1 grid whose cell is alive
C9_Witness ==
  /\ Returned("countNeighbors")
  /\ call.grid = <<(<<1>>)>>
  /\ ret.out = 8

(***************************************************************************)
(* Properties of changeResolution, the frame and the pointer               *)
(***************************************************************************)
\* the text entered is a number greater than 0 (entered is in halves)
EnteredPositive == entered # NaN /\ entered # Undefined /\ entered > 0

\* C11: after changeResolution read a positive value, no error was raised,
\* cols and rows are floor(windowWidth / resolution) and
\* floor(windowHeight / resolution), and the grid has exactly that shape.
C11_ResolutionChangeSafe ==
  (op = "changeResolution" /\ EnteredPositive) =>
     /\ err = "none"
     /\ cols = FloorDiv(windowWidth, resolution)
     /\ rows = FloorDiv(windowHeight, resolution)
     /\ Len(grid) = cols
     /\ \A i \in 1..Len(grid) : Len(grid[i]) = rows

(***************************************************************************)
(* Patterns                                                                *)
(***************************************************************************)
OtherAxis(axis) == IF axis = "first" THEN "second" ELSE "first"

\* C12: a blinker in a grid of at least 5 x 5 cells has period 2: one
\* generation turns the triple into the triple along the other axis through
\* the same centre, the next generation restores the original grid.
C12_BlinkerPeriodTwo ==
  Returned("nextGeneration repeated") =>
    /\ ret.first.err = "none"
    /\ ret.first.val = GridWith(call.cols, call.rows,
                                Triple(call.cols, call.rows, call.centre[1],
                                       call.centre[2], OtherAxis(call.axis)))
    /\ ret.second.err = "none"
    /\ ret.second.val = call.grid

\* a blinker of a non-square grid whose triple wraps around the edge
C12_Witness ==
  /\ Returned("nextGeneration repeated")
  /\ call.cols = 5
  /\ call.rows = 6
  /\ call.centre = <<0, 2>>
  /\ call.axis = "first"
  /\ ret.first.val # call.grid
  /\ ret.second.val = call.grid

IsBlockCall == Returned("nextGeneration") /\ "block" \in DOMAIN call

\* C13: a grid of at least 4 x 4 cells whose only alive cells are a 2 x 2
\* block is a fixed point: every block cell has exactly 3 alive neighbours,
\* no dead cell has exactly 3, and nextGeneration returns an equal grid.
C13_BlockIsStillLife ==
  IsBlockCall =>
    /\ \A p \in call.block : countNeighbors(call.grid, p[1], p[2]) = 3
    /\ \A p \in CellsOf(call.grid) \ call.block :
         countNeighbors(call.grid, p[1], p[2]) # 3
    /\ ret.out.err = "none"
    /\ ret.out.val = call.grid

\* the block of a 4 x 5 grid that wraps around both edges
C13_Witness ==
  /\ IsBlockCall
  /\ call.cols = 4
  /\ call.rows = 5
  /\ call.block = {<<3, 4>>, <<3, 0>>, <<0, 4>>, <<0, 0>>}
  /\ ret.out.val = call.grid

\* C14: on the 3 x 3 grid whose cells are all alive countNeighbors returns 8
\* for each of the 9 cells.
C14_AllAliveCountsEight ==
  (Returned("countNeighbors") /\ call.grid = AllAlive3x3) => ret.out = 8

\* the call for the corner cell (2, 2)
C14_Witness ==
  /\ Returned("countNeighbors")
  /\ call.grid = AllAlive3x3
  /\ call.x = 2
  /\ call.y = 2
  /\ ret.out = 8

(***************************************************************************)
(* randomFill2DArray                                                       *)
(***************************************************************************)
SameDimensions(a, b) ==
  /\ Len(a) = Len(b)
  /\ \A i \in 1..Len(a) : Len(a[i]) = Len(b[i])

AllCellsAre(g, v) == \A i \in 1..Len(g) : \A j \in 1..Len(g[i]) : g[i][j] = v

\* C15: whatever the draws in [0, 1), randomFill2DArray(grid, 0) returns an
\* all-dead grid and randomFill2DArray(grid, 1) an all-alive grid, each of the
\* input's dimensions.
C15_ExtremeProbabilities ==
  Returned("randomFill2DArray") =>
    /\ SameDimensions(ret.out, call.array)
    /\ call.probability = 0 => AllCellsAre(ret.out, 0)
    /\ call.probability = 100 => AllCellsAre(ret.out, 1)

\* probability 0 on an all-alive grid when every draw is 0
C15_Witness ==
  /\ Returned("randomFill2DArray")
  /\ call.array = create2DArray(MaxFillRows, MaxFillCols, 1).val
  /\ call.probability = 0
  /\ AllCellsAre(call.draws, 0)
  /\ AllCellsAre(ret.out, 0)
  /\ Len(ret.out) = MaxFillRows

(***************************************************************************)
(* The two revisions of countNeighbors                                     *)
(***************************************************************************)
\* C20: on every square grid (rows = cols >= 1) the first revision of
\* countNeighbors returns the same count as the later one for every cell.
C20_RevisionsAgreeOnSquares ==
  Returned("countNeighbors revisions") => ret.early = ret.later

\* a 2 x 2 grid that differs from its transpose
C20_Witness ==
  /\ Returned("countNeighbors revisions")
  /\ call.grid = <<<<0, 1>>, <<0, 0>>>>
  /\ call.x = 0
  /\ call.y = 0
  /\ ret.early = 2
  /\ ret.later = 2

(***************************************************************************)
(* Frames and pointer edits of the running sketch                          *)
(***************************************************************************)
\* C16: a frame renders the grid as it stood when the frame began, pointer
\* edits included, and ends with the grid replaced by nextGeneration of the
\* grid it rendered.
C16_FrameOrder ==
  op = "draw" =>
    /\ rendered = before
    /\ err = "none"
    /\ grid = nextGeneration(before, cols, rows).val

\* C17: in every reachable state every cell of the grid holds 0 or 1.
C17_CellsAreBits ==
  \A i \in 1..Len(grid) : \A j \in 1..Len(grid[i]) : grid[i][j] \in {0, 1}

\* a pointer edit has lengthened a row, and a frame has run on that grid
C17_Witness ==
  /\ op = "draw"
  /\ editedFrame
  /\ \E i \in 1..Len(before) : Len(before[i]) > rows
  /\ \E i \in 1..Len(grid) : \E j \in 1..Len(grid[i]) : grid[i][j] = 1
  /\ \E i \in 1..Len(grid) : \E j \in 1..Len(grid[i]) : grid[i][j] = 0

\* the cell at 0-based (i, j), Undefined where the grid has none
CellAt(g, i, j) == IF i < Len(g) THEN Get(g[i + 1], j) ELSE Undefined

\* every 0-based position at which g or h holds a cell
Positions(g, h) == CellsOf(g) \cup CellsOf(h)

\* C18: a click or drag on an in-range cell (x, y) leaves (x, y) alive,
\* changes no cell outside {x, x+1} x {y, y+1} and turns no alive cell dead;
\* a click or drag on an out-of-range cell leaves the grid unchanged.
C18_PointerEffect ==
  IsPointerOp =>
    IF pointed = <<>> THEN grid = before
    ELSE /\ CellAt(grid, pointed[1], pointed[2]) = 1
         /\ Len(grid) = Len(before)
         /\ \A p \in Positions(grid, before) :
              \/ CellAt(grid, p[1], p[2]) = CellAt(before, p[1], p[2])
              \/ /\ p[1] \in {pointed[1], pointed[1] + 1}
                 /\ p[2] \in {pointed[2], pointed[2] + 1}
                 /\ CellAt(grid, p[1], p[2]) = 1

\* a click on the cell (0, 0) that was dead, next to a cell that stays dead
C18_Witness ==
  /\ IsPointerOp
  /\ pointed = <<0, 0>>
  /\ err = "none"
  /\ CellAt(before, 0, 0) = 0
  /\ CellAt(grid, 0, 0) = 1
  /\ CellAt(grid, 1, 1) = 1
  /\ \E p \in CellsOf(grid) : CellAt(grid, p[1], p[2]) = 0

IsAllDead(g) == CellsOf(g) # {} /\ AllCellsAre(g, 0)

\* C19: a frame that begins with every cell dead ends with every cell dead.
C19_AllDeadIsAbsorbing == (op = "draw" /\ IsAllDead(before)) => IsAllDead(grid)

\* a frame has run on an all-dead grid
C19_Witness ==
  /\ op = "draw"
  /\ err = "none"
  /\ IsAllDead(before)
  /\ IsAllDead(grid)
  /\ inputAfter = before

====
